---- MODULE Spec2Model ----
(***************************************************************************)
(* A model of Stargazer.py: the starred-repository fetcher, the record     *)
(* store (data.jsonl), the loader, the star-list scraper and the README    *)
(* renderer with its table of contents.                                    *)
(*                                                                         *)
(* Text is a sequence of one-character strings wherever the program looks  *)
(* inside it (section names, slugs, descriptions, header values); it is a  *)
(* TLA+ string where the program only compares or concatenates it (keys,   *)
(* identifiers).                                                           *)
(***************************************************************************)
EXTENDS Integers, Sequences, FiniteSets, TLC

VARIABLES
    store,            \* the file data.jsonl
    data,             \* self.data: the dict full_name -> record, in insertion order
    star_lists,       \* self.star_lists: sequence of <<identifier, name>>
    star_list_repos,  \* self.star_list_repos: dict identifier -> sequence of <<user, repo>>
    sort_by,          \* self.sort_by
    output,           \* the file README.md: NoOutput, or the document written
    pc,               \* where the caller of the object stands
    url,              \* get_all_starred's cursor: the page to request next, 0 for none
    clock,            \* wall-clock time, in ticks (Resolution ticks to the second)
    err,              \* the exception the last call propagated, "none" if it returned
    sections,         \* build_toc's argument
    toc,              \* build_toc's result, in a one-element sequence once it returned
    \* what the environment did and what the calls saw (history)
    pages,            \* the item lists of the pages the current fetch accepted
    requests,         \* page requests issued by the current fetch
    hdr,              \* status and rate-limit headers of the last response received
    req_at,           \* the clock when the last page request was issued
    req_due,          \* due, as it stood when the last page request was issued
    slept,            \* seconds the last _handle_rate_limit call slept
    due,              \* the latest reset-plus-margin moment (ticks) a response asked for
    web,              \* the list pages get_all_repos scraped: identifier -> pages
    trail,            \* the names of the last calls made, oldest first
    renders,          \* the documents written since self.data was last loaded (last two)
    first_loaded      \* self.data as the first load left it, in a one-element sequence

vars == <<store, data, star_lists, star_list_repos, sort_by, output, pc, url,
          clock, err, sections, toc, pages, requests, hdr, req_at, req_due,
          slept, due, web, trail, renders, first_loaded>>

----------------------------------------------------------------------------
(* Bounds of the model.                                                    *)

MaxSections == 3      \* section names given to build_toc
MaxLines == 2         \* lines of a store the loader is given
MaxMembers == 2       \* matches on one scraped list page
MaxPages == 2         \* pages one fetch may follow
MaxClock == 6         \* ticks the environment lets pass on its own
MaxCalls == 3         \* calls a free caller of the loader and renderer makes
Resolution == 2       \* clock ticks per second

----------------------------------------------------------------------------
(* Values.                                                                 *)

\* Python's None where a text is expected: no text is this sequence.
None == <<"<None>">>
\* a file: whether it exists, and its lines
Missing == [exists |-> FALSE, lines |-> <<>>]
File(lines) == [exists |-> TRUE, lines |-> lines]
\* README.md before anything is written: a written document has a table
NoOutput == [toc |-> <<>>, tables |-> <<>>]
\* the empty string build_toc returns: a table of contents has an entry
NoToc == <<>>
\* no response received yet
NoResponse == [status |-> 0, remaining |-> None, reset |-> None]

Max(a, b) == IF a >= b THEN a ELSE b

Range(s) == {s[i] : i \in DOMAIN s}

SeqsUpTo(S, n) == UNION {[1..k -> S] : k \in 0..n}

RECURSIVE Flatten(_)
Flatten(ss) == IF ss = <<>> THEN <<>> ELSE Head(ss) \o Flatten(Tail(ss))

Reverse(s) == [i \in 1..Len(s) |-> s[Len(s) + 1 - i]]

RECURSIVE Filter(_, _)
\* [x for x in s if x in keep]
Filter(s, keep) ==
    IF s = <<>> THEN <<>>
    ELSE (IF Head(s) \in keep THEN <<Head(s)>> ELSE <<>>) \o Filter(Tail(s), keep)

----------------------------------------------------------------------------
(* Characters: str.lower, \w and \s of the re module, restricted to ASCII. *)

UpperLetters == <<"A","B","C","D","E","F","G","H","I","J","K","L","M",
                  "N","O","P","Q","R","S","T","U","V","W","X","Y","Z">>
LowerLetters == <<"a","b","c","d","e","f","g","h","i","j","k","l","m",
                  "n","o","p","q","r","s","t","u","v","w","x","y","z">>
Digits == <<"0","1","2","3","4","5","6","7","8","9">>

SpaceChars == {" ", "\t", "\n", "\r"}
DigitChars == Range(Digits)
UpperChars == Range(UpperLetters)
WordChars == UpperChars \cup Range(LowerLetters) \cup DigitChars \cup {"_"}

IsSpace(c) == c \in SpaceChars
IsWord(c) == c \in WordChars

ToLower(c) ==
    IF c \in UpperChars
    THEN LowerLetters[CHOOSE i \in DOMAIN UpperLetters : UpperLetters[i] = c]
    ELSE c

Lower(t) == [i \in DOMAIN t |-> ToLower(t[i])]

RECURSIVE LStrip(_)
LStrip(t) == IF t # <<>> /\ IsSpace(Head(t)) THEN LStrip(Tail(t)) ELSE t

RECURSIVE RStrip(_)
RStrip(t) ==
    IF t # <<>> /\ IsSpace(t[Len(t)]) THEN RStrip(SubSeq(t, 1, Len(t) - 1)) ELSE t

\* str.strip()
Strip(t) == RStrip(LStrip(t))

RECURSIVE DropOthers(_)
\* re.sub(r"[^\w\s-]", "", t)
DropOthers(t) ==
    IF t = <<>> THEN <<>>
    ELSE (IF IsWord(Head(t)) \/ IsSpace(Head(t)) \/ Head(t) = "-"
          THEN <<Head(t)>> ELSE <<>>) \o DropOthers(Tail(t))

RECURSIVE SpacesToHyphen(_)
\* re.sub(r"\s+", "-", t): each maximal run of whitespace becomes one hyphen
SpacesToHyphen(t) ==
    IF t = <<>> THEN <<>>
    ELSE IF IsSpace(Head(t))
         THEN <<"-">> \o SpacesToHyphen(LStrip(t))
         ELSE <<Head(t)>> \o SpacesToHyphen(Tail(t))

RECURSIVE IntToText(_)
\* str(n) for n >= 0
IntToText(n) ==
    IF n < 10 THEN <<Digits[n + 1]>>
    ELSE IntToText(n \div 10) \o <<Digits[(n % 10) + 1]>>

----------------------------------------------------------------------------
(* slugify and build_toc.                                                  *)

SectionWord == <<"s","e","c","t","i","o","n">>

slugify(text) ==
    LET slug == SpacesToHyphen(DropOthers(Lower(Strip(text))))
    IN  IF slug # <<>> THEN slug ELSE SectionWord

\* anchors.get(slug, 0), the dict being the slugs of the entries before
CountOf(slug, before) == Cardinality({i \in DOMAIN before : before[i] = slug})

UniqueSlug(slug, count) == IF count = 0 THEN slug ELSE slug \o <<"-">> \o IntToText(count)

\* The entries "- [section](#anchor)" of the table of contents, as
\* <<section, anchor>>; NoToc for the empty string build_toc returns.
RECURSIVE TocEntries(_, _)
\* the loop over cleaned_sections, seen being the slugs of the entries before
TocEntries(secs, seen) ==
    IF secs = <<>> THEN <<>>
    ELSE LET slug == slugify(Head(secs))
         IN  <<<<Head(secs), UniqueSlug(slug, CountOf(slug, seen))>>>>
             \o TocEntries(Tail(secs), Append(seen, slug))

build_toc(secs) == TocEntries(SelectSeq(secs, LAMBDA s : s # <<>>), <<>>)

----------------------------------------------------------------------------
(* The record store: JSON Lines.  A line is what json.loads makes of it:   *)
(* an object (a dict of its fields), another JSON value (which has no      *)
(* .get), text json.loads rejects, or whitespace only.                     *)

JsonDumps(entry) == [kind |-> "object", obj |-> entry]

\* dict.get(k, default)
DictGet(obj, k, default) == IF k \in DOMAIN obj THEN obj[k] ELSE default

\* Python truth of a text value: None and the empty text are false
Truthy(v) == v # None /\ v # <<>>

\* The entry get_all_starred writes for one item of a page.
Entry(repo) ==
    [full_name |-> repo.full_name,
     html_url |-> repo.html_url,
     description |-> IF Truthy(repo.description) THEN repo.description ELSE <<>>,
     listed |-> FALSE,
     stars |-> repo.stargazers_count]

\* The lines written for a page, in the order of its items.
PageLines(items) == [i \in DOMAIN items |-> JsonDumps(Entry(items[i]))]

KeysOf(d) == [i \in DOMAIN d |-> d[i].key]

HasKey(d, k) == \E i \in DOMAIN d : d[i].key = k

Lookup(d, k) == d[CHOOSE i \in DOMAIN d : d[i].key = k]

\* data[full] = {...}: a present key keeps its place and takes the new value
DictSet(d, rec) ==
    IF HasKey(d, rec.key)
    THEN [i \in DOMAIN d |-> IF d[i].key = rec.key THEN rec ELSE d[i]]
    ELSE Append(d, rec)

\* LoadLine reading the address under the key "url", which no entry has
LoadLineWrongKey(line, d) ==
    CASE line.kind = "blank" -> [err |-> "none", data |-> d]
      [] line.kind = "garbage" -> [err |-> "none", data |-> d]
      [] line.kind = "object" ->
            LET full == DictGet(line.obj, "full_name", "")
            IN  [err |-> "none",
                 data |-> IF full # ""
                          THEN DictSet(d, [key |-> full,
                                           html_url |-> DictGet(line.obj, "url", ""),
                                           description |-> DictGet(line.obj, "description", <<>>),
                                           listed |-> DictGet(line.obj, "listed", FALSE),
                                           stars |-> DictGet(line.obj, "stars", 0)])
                          ELSE d]
      [] OTHER -> [err |-> "AttributeError", data |-> d]

\* The body of the loader's loop for one line: the dict after it, and the
\* exception that escapes it ("none" if the next line is read).
LoadLine(line, d) ==
    CASE line.kind = "blank" -> [err |-> "none", data |-> d]
      [] line.kind = "garbage" -> [err |-> "none", data |-> d]
      [] line.kind = "object" ->
            LET full == DictGet(line.obj, "full_name", "")
            IN  [err |-> "none",
                 data |-> IF full # ""
                          THEN DictSet(d, [key |-> full,
                                           html_url |-> DictGet(line.obj, "html_url", ""),
                                           description |-> DictGet(line.obj, "description", <<>>),
                                           listed |-> DictGet(line.obj, "listed", FALSE),
                                           stars |-> DictGet(line.obj, "stars", 0)])
                          ELSE d]
      [] OTHER -> [err |-> "AttributeError", data |-> d]

RECURSIVE LoadLines(_, _)
LoadLines(lines, d) ==
    IF lines = <<>> THEN [err |-> "none", data |-> d]
    ELSE LET r == LoadLine(Head(lines), d)
         IN  IF r.err # "none" THEN r ELSE LoadLines(Tail(lines), r.data)

\* load_data_from_jsonl: the exception it propagates and self.data after it.
LoadResult(file, old) ==
    IF ~file.exists THEN [err |-> "none", data |-> <<>>]
    ELSE LET r == LoadLines(file.lines, <<>>)
         IN  IF r.err = "none" THEN r ELSE [err |-> r.err, data |-> old]

----------------------------------------------------------------------------
(* _handle_rate_limit.                                                     *)

Margin == 5

RECURSIVE DigitsValue(_, _)
DigitsValue(t, acc) ==
    IF t = <<>> THEN acc
    ELSE DigitsValue(Tail(t),
                     10 * acc + (CHOOSE n \in 0..9 : Digits[n + 1] = Head(t)))

\* int(text): surrounding whitespace and one sign are accepted, then digits
\* only; anything else is a ValueError.
PyInt(t) ==
    LET s == Strip(t)
        signed == s # <<>> /\ Head(s) \in {"+", "-"}
        body == IF signed THEN Tail(s) ELSE s
    IN  IF body # <<>> /\ \A i \in DOMAIN body : body[i] \in DigitChars
        THEN [ok |-> TRUE,
              val |-> IF signed /\ Head(s) = "-" THEN 0 - DigitsValue(body, 0)
                      ELSE DigitsValue(body, 0)]
        ELSE [ok |-> FALSE, val |-> 0]

\* SleepFor without the safety margin
SleepForNoMargin(remaining, reset, now) ==
    IF remaining # None /\ reset # None
    THEN IF ~PyInt(remaining).ok THEN 0
         ELSE IF PyInt(remaining).val = 0
              THEN IF ~PyInt(reset).ok THEN 0
                   ELSE Max(0, PyInt(reset).val - now)
              ELSE 0
    ELSE 0

\* The seconds _handle_rate_limit sleeps for a response handled at second now.
SleepFor(remaining, reset, now) ==
    IF remaining # None /\ reset # None
    THEN IF ~PyInt(remaining).ok THEN 0
         ELSE IF PyInt(remaining).val = 0
              THEN IF ~PyInt(reset).ok THEN 0
                   ELSE Max(0, PyInt(reset).val - now + Margin)
              ELSE 0
    ELSE 0

\* int(time.time())
NowSeconds(t) == t \div Resolution

\* raise_for_status raising for server errors only
RaisesForServerErrors(status) == status >= 500 /\ status < 600

\* response.raise_for_status()
RaisesForStatus(status) == status >= 400 /\ status < 600

----------------------------------------------------------------------------
(* generate_readme.                                                        *)

\* f"{user}/{repo}"
KeyOf(pair) == pair[1] \o "/" \o pair[2]

RECURSIVE Escape(_)
\* description.replace("|", "\\|")
Escape(t) ==
    IF t = <<>> THEN <<>>
    ELSE (IF Head(t) = "|" THEN <<"\\", "|">> ELSE <<Head(t)>>) \o Escape(Tail(t))

RECURSIVE InsertDesc(_, _)
\* e goes behind every element whose stars are not lower than its own
InsertDesc(sorted, e) ==
    IF sorted = <<>> THEN <<e>>
    ELSE IF Head(sorted).stars >= e.stars
         THEN <<Head(sorted)>> \o InsertDesc(Tail(sorted), e)
         ELSE <<e>> \o sorted

RECURSIVE SortByStars(_)
\* sorted(repos, key=stars, reverse=True): descending, equal stars in input order
SortByStars(recs) ==
    IF recs = <<>> THEN <<>>
    ELSE InsertDesc(SortByStars(SubSeq(recs, 1, Len(recs) - 1)), recs[Len(recs)])

\* Order leaving the rows as they come
OrderKept(recs, mode) == recs

Order(recs, mode) == IF mode = "stars" THEN SortByStars(recs) ELSE Reverse(recs)

Row(rec) == [key |-> rec.key, desc |-> Escape(rec.description), stars |-> rec.stars]

PlaceholderRow == [key |-> "*All repositories are categorized*", desc |-> <<>>, stars |-> -1]

\* self.star_list_repos.get(list_url, [])
Members(repos, id) == IF id \in DOMAIN repos THEN repos[id] ELSE <<>>

RECURSIVE CategoryReposUnlisted(_, _)
\* CategoryRepos passing over the records already marked listed
CategoryReposUnlisted(members, d) ==
    IF members = <<>> THEN <<>>
    ELSE (IF HasKey(d, KeyOf(Head(members))) /\ ~Lookup(d, KeyOf(Head(members))).listed
          THEN <<Lookup(d, KeyOf(Head(members)))>> ELSE <<>>)
         \o CategoryReposUnlisted(Tail(members), d)

RECURSIVE CategoryRepos(_, _)
\* the (key, record) pairs of a membership list whose key is in the mapping
CategoryRepos(members, d) ==
    IF members = <<>> THEN <<>>
    ELSE (IF HasKey(d, KeyOf(Head(members)))
          THEN <<Lookup(d, KeyOf(Head(members)))>> ELSE <<>>)
         \o CategoryRepos(Tail(members), d)

\* repo["listed"] = True for every emitted row
MarkListed(d, recs) ==
    [i \in DOMAIN d |->
        IF \E j \in DOMAIN recs : recs[j].key = d[i].key
        THEN [d[i] EXCEPT !.listed = TRUE] ELSE d[i]]

RECURSIVE CategoryTables(_, _, _, _)
\* the loop over self.star_lists: the tables, and the mapping as it leaves it
CategoryTables(lists, repos, d, mode) ==
    IF lists = <<>> THEN [tables |-> <<>>, data |-> d]
    ELSE LET sorted == Order(CategoryRepos(Members(repos, Head(lists)[1]), d), mode)
             rest == CategoryTables(Tail(lists), repos, MarkListed(d, sorted), mode)
         IN  [tables |-> <<[heading |-> Head(lists)[2],
                            rows |-> [i \in DOMAIN sorted |-> Row(sorted[i])]]>>
                         \o rest.tables,
              data |-> rest.data]

\* [key for key in self.data if not self.data[key]["listed"]], ordered
Unlisted(d, mode) == Order(SelectSeq(d, LAMBDA r : ~r.listed), mode)

UncategorizedName ==
    <<"U","n","c","a","t","e","g","o","r","i","z","e","d"," ",
      "R","e","p","o","s","i","t","o","r","i","e","s">>

UncategorizedTable(d, mode) ==
    LET unlisted == Unlisted(d, mode)
    IN  [heading |-> UncategorizedName,
         rows |-> IF unlisted = <<>> THEN <<PlaceholderRow>>
                  ELSE [i \in DOMAIN unlisted |-> Row(unlisted[i])]]

\* The document generate_readme writes, and the mapping as it leaves it.
Render(lists, repos, d, mode) ==
    LET cats == CategoryTables(lists, repos, d, mode)
    IN  [doc |-> [toc |-> build_toc([i \in DOMAIN lists |-> lists[i][2]]
                                    \o <<UncategorizedName>>),
                  tables |-> Append(cats.tables, UncategorizedTable(cats.data, mode))],
         data |-> cats.data]

----------------------------------------------------------------------------
(* get_list_repos and get_all_repos.                                       *)

\* The matches of page n of a list: an absent page has none.
PageMatches(site, id, n) ==
    IF id \in DOMAIN site /\ n \in DOMAIN site[id] THEN site[id][n] ELSE <<>>

RECURSIVE ListRepos(_, _, _, _)
\* the while loop of get_list_repos from page n on, acc being the list so far
ListRepos(site, id, n, acc) ==
    IF PageMatches(site, id, n) = <<>> THEN acc
    ELSE ListRepos(site, id, n + 1, acc \o PageMatches(site, id, n))

\* self.star_list_repos after get_list_repos(list_name)
get_list_repos(site, repos, id) ==
    LET start == IF id \in DOMAIN repos THEN repos[id] ELSE <<>>
    IN  [k \in DOMAIN repos \cup {id} |->
            IF k = id THEN ListRepos(site, id, 1, start) ELSE repos[k]]

RECURSIVE get_all_repos(_, _, _)
\* self.star_list_repos after the loop over self.star_lists
get_all_repos(site, repos, lists) ==
    IF lists = <<>> THEN repos
    ELSE get_all_repos(site, get_list_repos(site, repos, Head(lists)[1]), Tail(lists))

----------------------------------------------------------------------------
(* What the environment supplies.                                          *)

ItemAB == [full_name |-> "a/b", html_url |-> "https://github.com/a/b",
           description |-> None, stargazers_count |-> 2]
ItemCD == [full_name |-> "c/d", html_url |-> "https://github.com/c/d",
           description |-> <<"x", "|", "y">>, stargazers_count |-> 5]
ItemEF == [full_name |-> "e/f", html_url |-> "https://github.com/e/f",
           description |-> <<"z">>, stargazers_count |-> 5]
\* a/b as a later page reports it, starred again in between
ItemAB2 == [full_name |-> "a/b", html_url |-> "https://github.com/a/b",
            description |-> <<"n">>, stargazers_count |-> 7]

ApiItems == {ItemAB, ItemCD, ItemEF, ItemAB2}

PairAB == <<"a", "b">>
PairCD == <<"c", "d">>
PairGH == <<"g", "h">>

CatGo == <<"go", <<"G", "o">>>>
CatMl == <<"ml", <<"M", "L">>>>

\* what get_lists may find on the profile page
ListChoices == {<<>>, <<CatGo>>, <<CatGo, CatMl>>, <<CatMl, CatGo>>, <<CatGo, CatGo>>}

\* the same without the mirror image of <<CatGo, CatMl>>
RenderLists == {<<>>, <<CatGo>>, <<CatGo, CatMl>>, <<CatGo, CatGo>>}

IdsOf(lists) == {lists[i][1] : i \in DOMAIN lists}

NoHeaders == [remaining |-> None, reset |-> None]

Response(status, items, next, h) ==
    [status |-> status, items |-> items, next |-> next,
     remaining |-> h.remaining, reset |-> h.reset]

\* the responses the main run is driven with
MainResponses ==
    {Response(st, it, nx, h) :
        st \in {200, 404},
        it \in {<<>>, <<ItemAB>>, <<ItemCD>>, <<ItemAB, ItemCD>>},
        nx \in BOOLEAN,
        h \in {NoHeaders, [remaining |-> <<"0">>, reset |-> <<"3">>]}}

\* the responses the pacing is driven with
PaceResponses ==
    {Response(st, <<>>, nx, [remaining |-> rem, reset |-> rst]) :
        st \in {200, 403},
        nx \in BOOLEAN,
        rem \in {None, <<"0">>, <<" ", "0">>, <<"1">>, <<"x">>},
        rst \in {None, <<"0">>, <<"3">>, <<"s", "o", "o", "n">>}}

\* the pages of one list, as the site serves them
ListSites ==
    {<<>>, <<<<PairAB>>>>, <<<<PairAB, PairCD>>, <<PairAB>>>>,
     <<<<PairGH>>, <<>>, <<PairCD>>>>}

\* one-page lists of at most MaxMembers matches
SmallSites ==
    {IF m = <<>> THEN <<>> ELSE <<m>> : m \in SeqsUpTo({PairAB, PairCD}, MaxMembers)}

BlankLine == [kind |-> "blank", obj |-> [text |-> " "]]
GarbageLine == [kind |-> "garbage", obj |-> [text |-> "{oops"]]
ScalarLine == [kind |-> "scalar", obj |-> [text |-> "42"]]
NamelessLine == [kind |-> "object", obj |-> [html_url |-> "https://github.com/q/r"]]
BareLine == [kind |-> "object", obj |-> [full_name |-> "e/f"]]

FetcherLines == {JsonDumps(Entry(it)) : it \in ApiItems}

AnyLines == FetcherLines \cup {BlankLine, GarbageLine, ScalarLine, NamelessLine, BareLine}

EmptyDict == [k \in {} |-> <<>>]

----------------------------------------------------------------------------
(* The operations of a Stargazer object.  They leave pc and trail to the   *)
(* caller.                                                                 *)

\* get_all_starred, up to its loop: the file is opened for writing
FetchOpen ==
    /\ url = 0
    /\ store' = File(<<>>)
    /\ url' = 1
    /\ pages' = <<>>
    /\ requests' = 0
    /\ UNCHANGED <<data, star_lists, star_list_repos, sort_by, output, clock, err,
                   sections, toc, hdr, req_at, req_due, slept, due, web, renders,
                   first_loaded>>

\* the moment a response asks the fetcher to wait for, 0 if it asks for none
AskedFor(resp) ==
    IF /\ resp.remaining # None /\ resp.reset # None
       /\ PyInt(resp.remaining).ok /\ PyInt(resp.remaining).val = 0
       /\ PyInt(resp.reset).ok
    THEN (PyInt(resp.reset).val + 5) * Resolution
    ELSE 0

\* One turn of get_all_starred's loop: the request, whose response arrives
\* lat ticks later, the rate-limit pause, the status check, the writes and
\* the next link; leaving the loop ends the call.
FetchPage(resp, lat) ==
    LET sleep == SleepFor(resp.remaining, resp.reset, NowSeconds(clock + lat))
    IN  /\ url # 0
        /\ requests' = requests + 1
        /\ req_at' = clock
        /\ req_due' = due
        /\ hdr' = [status |-> resp.status, remaining |-> resp.remaining,
                   reset |-> resp.reset]
        /\ slept' = sleep
        /\ clock' = clock + lat + sleep * Resolution
        /\ due' = Max(due, AskedFor(resp))
        /\ IF RaisesForStatus(resp.status)
           THEN /\ err' = "HTTPError"
                /\ url' = 0
                /\ UNCHANGED <<store, pages, data>>
           ELSE /\ err' = "none"
                /\ store' = File(store.lines \o PageLines(resp.items))
                /\ pages' = Append(pages, resp.items)
                /\ url' = IF resp.next THEN url + 1 ELSE 0
                /\ data' = IF resp.next THEN data ELSE <<>>
        /\ UNCHANGED <<star_lists, star_list_repos, sort_by, output, sections, toc,
                       web, renders, first_loaded>>

load_data_from_jsonl ==
    LET r == LoadResult(store, data)
    IN  /\ url = 0
        /\ err' = r.err
        /\ data' = r.data
        /\ first_loaded' = IF first_loaded = <<>> /\ r.err = "none" THEN <<r.data>>
                           ELSE first_loaded
        /\ renders' = <<>>
        /\ UNCHANGED <<store, star_lists, star_list_repos, sort_by, output, url, clock,
                       sections, toc, pages, requests, hdr, req_at, req_due, slept,
                       due, web>>

get_lists(found) ==
    /\ url = 0
    /\ star_lists' = found
    /\ err' = "none"
    /\ renders' = <<>>
    /\ UNCHANGED <<store, data, star_list_repos, sort_by, output, url, clock, sections,
                   toc, pages, requests, hdr, req_at, req_due, slept, due, web,
                   first_loaded>>

GetAllRepos(site) ==
    /\ url = 0
    /\ star_list_repos' = get_all_repos(site, star_list_repos, star_lists)
    /\ web' = site
    /\ err' = "none"
    /\ renders' = <<>>
    /\ UNCHANGED <<store, data, star_lists, sort_by, output, url, clock, sections, toc,
                   pages, requests, hdr, req_at, req_due, slept, due, first_loaded>>

generate_readme ==
    LET r == Render(star_lists, star_list_repos, data, sort_by)
    IN  /\ url = 0
        /\ data' = r.data
        /\ output' = r.doc
        /\ renders' = IF Len(renders) = 2 THEN <<renders[2], r.doc>>
                      ELSE Append(renders, r.doc)
        /\ err' = "none"
        /\ UNCHANGED <<store, star_lists, star_list_repos, sort_by, url, clock, sections,
                       toc, pages, requests, hdr, req_at, req_due, slept, due, web,
                       first_loaded>>

BuildToc ==
    /\ toc = <<>>
    /\ toc' = <<build_toc(sections)>>
    /\ UNCHANGED <<store, data, star_lists, star_list_repos, sort_by, output, pc, url,
                   clock, err, sections, pages, requests, hdr, req_at, req_due, slept,
                   due, web, trail, renders, first_loaded>>

\* time passing while the program does nothing
Tick ==
    /\ clock < MaxClock
    /\ clock' = clock + 1
    /\ UNCHANGED <<store, data, star_lists, star_list_repos, sort_by, output, pc, url,
                   err, sections, toc, pages, requests, hdr, req_at, req_due, slept,
                   due, web, trail, renders, first_loaded>>

----------------------------------------------------------------------------
(* The main run: the five calls of the script, in order; an exception      *)
(* ends it.                                                                *)

Called(name) == trail' = Append(trail, name)

MainFetchOpen ==
    /\ pc = "get_all_starred"
    /\ FetchOpen
    /\ Called("get_all_starred")
    /\ pc' = "in_get_all_starred"

MainFetchPage ==
    /\ pc = "in_get_all_starred"
    /\ \E resp \in MainResponses :
          /\ resp.next => url < MaxPages
          /\ FetchPage(resp, 0)
    /\ pc' = IF err' # "none" THEN "failed"
             ELSE IF url' = 0 THEN "get_lists" ELSE pc
    /\ UNCHANGED trail

MainGetLists ==
    /\ pc = "get_lists"
    /\ \E found \in ListChoices : get_lists(found)
    /\ Called("get_lists")
    /\ pc' = "get_all_repos"

MainGetAllRepos ==
    /\ pc = "get_all_repos"
    /\ \E site \in [IdsOf(star_lists) -> ListSites] : GetAllRepos(site)
    /\ Called("get_all_repos")
    /\ pc' = "load_data_from_jsonl"

MainLoad ==
    /\ pc = "load_data_from_jsonl"
    /\ load_data_from_jsonl
    /\ Called("load_data_from_jsonl")
    /\ pc' = IF err' # "none" THEN "failed" ELSE "generate_readme"

MainGenerate ==
    /\ pc = "generate_readme"
    /\ generate_readme
    /\ Called("generate_readme")
    /\ pc' = "done"

Blank ==
    /\ data = <<>>
    /\ star_lists = <<>>
    /\ star_list_repos = EmptyDict
    /\ output = NoOutput
    /\ url = 0
    /\ clock = 0
    /\ err = "none"
    /\ toc = <<>>
    /\ pages = <<>>
    /\ requests = 0
    /\ hdr = NoResponse
    /\ req_at = 0
    /\ req_due = 0
    /\ slept = 0
    /\ due = 0
    /\ web = EmptyDict
    /\ trail = <<>>
    /\ renders = <<>>
    /\ first_loaded = <<>>

Init ==
    /\ Blank
    /\ pc = "get_all_starred"
    /\ store \in {Missing, File(<<JsonDumps(Entry(ItemEF))>>)}
    /\ sort_by \in {"stars", "order"}
    /\ sections = <<>>

Next ==
    \/ MainFetchOpen
    \/ MainFetchPage
    \/ MainGetLists
    \/ MainGetAllRepos
    \/ MainLoad
    \/ MainGenerate

Spec == Init /\ [][Next]_vars

----------------------------------------------------------------------------
(* The fetch alone, under a clock that also advances on its own.           *)

PaceFetchOpen ==
    /\ pc = "get_all_starred"
    /\ FetchOpen
    /\ Called("get_all_starred")
    /\ pc' = "in_get_all_starred"

PaceFetchPage ==
    /\ pc = "in_get_all_starred"
    /\ \E resp \in PaceResponses, lat \in {0, 1} :
          /\ resp.next => url < MaxPages
          /\ FetchPage(resp, lat)
    /\ pc' = IF err' # "none" THEN "failed"
             ELSE IF url' = 0 THEN "get_lists" ELSE pc
    /\ UNCHANGED trail

PaceInit ==
    /\ Blank
    /\ pc = "get_all_starred"
    /\ store = Missing
    /\ sort_by = "stars"
    /\ sections = <<>>

PaceNext ==
    \/ PaceFetchOpen
    \/ PaceFetchPage
    \/ Tick

PaceSpec == PaceInit /\ [][PaceNext]_vars

----------------------------------------------------------------------------
(* The loader and the renderer called freely on a store of any content.    *)

CallLoad ==
    /\ Len(trail) < MaxCalls
    /\ load_data_from_jsonl
    /\ Called("load_data_from_jsonl")
    /\ UNCHANGED pc

CallGenerate ==
    /\ Len(trail) < MaxCalls
    /\ generate_readme
    /\ Called("generate_readme")
    /\ UNCHANGED pc

LoadInit ==
    /\ pc = "free"
    /\ store \in {Missing} \cup {File(ls) : ls \in SeqsUpTo(AnyLines, MaxLines)}
    /\ sort_by = "stars"
    /\ data = <<>>
    /\ star_lists \in {<<>>, <<CatGo>>}
    /\ star_list_repos = get_all_repos([id \in {"go"} |-> <<<<PairAB>>>>], EmptyDict,
                                       star_lists)
    /\ output = NoOutput
    /\ url = 0
    /\ clock = 0
    /\ err = "none"
    /\ sections = <<>>
    /\ toc = <<>>
    /\ pages = <<>>
    /\ requests = 0
    /\ hdr = NoResponse
    /\ req_at = 0
    /\ req_due = 0
    /\ slept = 0
    /\ due = 0
    /\ web = EmptyDict
    /\ trail = <<>>
    /\ renders = <<>>
    /\ first_loaded = <<>>

LoadNext ==
    \/ CallLoad
    \/ CallGenerate

LoadSpec == LoadInit /\ [][LoadNext]_vars

----------------------------------------------------------------------------
(* The renderer on what the main run hands it: a fetched store, loaded,    *)
(* and the scraped lists.  It may be called again, and the store reloaded. *)

Reload ==
    /\ load_data_from_jsonl
    /\ UNCHANGED <<pc, trail>>

Regenerate ==
    /\ generate_readme
    /\ UNCHANGED <<pc, trail>>

RenderInit ==
    /\ pc = "generate_readme"
    /\ \E items \in SeqsUpTo({ItemAB, ItemCD, ItemEF}, MaxLines) :
          /\ store = File(PageLines(items))
          /\ data = LoadResult(store, <<>>).data
          /\ first_loaded = <<data>>
    /\ sort_by \in {"stars", "order"}
    /\ star_lists \in RenderLists
    /\ \E site \in [IdsOf(star_lists) -> SmallSites] :
          /\ web = site
          /\ star_list_repos = get_all_repos(site, EmptyDict, star_lists)
    /\ output = NoOutput
    /\ url = 0
    /\ clock = 0
    /\ err = "none"
    /\ sections = <<>>
    /\ toc = <<>>
    /\ pages = <<>>
    /\ requests = 0
    /\ hdr = NoResponse
    /\ req_at = 0
    /\ req_due = 0
    /\ slept = 0
    /\ due = 0
    /\ trail = <<>>
    /\ renders = <<>>

RenderNext ==
    \/ Regenerate
    \/ Reload

RenderSpec == RenderInit /\ [][RenderNext]_vars

----------------------------------------------------------------------------
(* build_toc on any short list of section names.                           *)

SectionNames ==
    {<<"G", "o">>, <<"g", "o">>, <<"G", "o", "-", "1">>, <<" ", "C", "+", "+">>,
     <<"!", "?">>, <<>>}

TocInit ==
    /\ Blank
    /\ pc = "build_toc"
    /\ store = Missing
    /\ sort_by = "stars"
    /\ sections \in SeqsUpTo(SectionNames, MaxSections)

TocNext == BuildToc

TocSpec == TocInit /\ [][TocNext]_vars

----------------------------------------------------------------------------
(* Properties.                                                             *)

Last(s) == s[Len(s)]

RowKeys(table) == [r \in DOMAIN table.rows |-> table.rows[r].key]

\* the places <<table, row>> of the document where key k is a row
RowsOf(doc, k) ==
    UNION {{<<t, r>> : r \in {x \in DOMAIN doc.tables[t].rows :
                                  doc.tables[t].rows[x].key = k}} :
           t \in DOMAIN doc.tables}

MemberKeys(id) == {KeyOf(m) : m \in Range(Members(star_list_repos, id))}

\* the table a key belongs in: that of the first category, in discovery
\* order, whose membership has it; the uncategorized table, the last, if none
HomeTable(k) ==
    IF \E i \in DOMAIN star_lists : k \in MemberKeys(star_lists[i][1])
    THEN CHOOSE i \in DOMAIN star_lists :
            /\ k \in MemberKeys(star_lists[i][1])
            /\ \A j \in 1..(i - 1) : k \notin MemberKeys(star_lists[j][1])
    ELSE Len(star_lists) + 1

\* C1: after generate_readme every key of the mapping is a row of exactly
\* one table of the document: the table of the first category whose
\* membership has it, or the uncategorized table if no category has it.
PartitionOfKeys ==
    output # NoOutput =>
        \A i \in DOMAIN data :
            /\ Cardinality(RowsOf(output, data[i].key)) = 1
            /\ \A p \in RowsOf(output, data[i].key) : p[1] = HomeTable(data[i].key)

FetchReturned == pc \in {"get_lists", "get_all_repos", "load_data_from_jsonl",
                         "generate_readme", "done"}

FiveFields == {"full_name", "html_url", "description", "listed", "stars"}

\* C2: once get_all_starred has returned, the store holds exactly one line
\* for each repository named on the pages of the fetch, each a record of
\* the five fields; nothing of an earlier run is left.
OneLinePerRepository ==
    FetchReturned =>
        /\ store.exists
        /\ Len(store.lines) =
              Cardinality({it.full_name : it \in Range(Flatten(pages))})
        /\ \A i \in DOMAIN store.lines :
              /\ store.lines[i].kind = "object"
              /\ DOMAIN store.lines[i].obj = FiveFields
              /\ \E it \in Range(Flatten(pages)) :
                    store.lines[i].obj.full_name = it.full_name

FetcherWritten(file) ==
    /\ file.exists
    /\ \A i \in DOMAIN file.lines : file.lines[i] \in FetcherLines

\* the last line of the file written for the repository named k
LastWritten(file, k) ==
    file.lines[CHOOSE i \in DOMAIN file.lines :
                  /\ file.lines[i].obj.full_name = k
                  /\ \A j \in (i + 1)..Len(file.lines) :
                        file.lines[j].obj.full_name # k].obj

Loaded == trail # <<>> /\ Last(trail) = "load_data_from_jsonl"

\* C3: loading a store the fetcher wrote gives a mapping whose keys are
\* exactly the names written, each once, with the address, description,
\* stars and listed flag of the line written for it; every later load of
\* the store gives the mapping the first load gave, whatever a rendering
\* did to the flags in between.
RoundTrip ==
    (Loaded /\ FetcherWritten(store)) =>
        /\ err = "none"
        /\ Range(KeysOf(data)) = {store.lines[i].obj.full_name : i \in DOMAIN store.lines}
        /\ \A i, j \in DOMAIN data : data[i].key = data[j].key => i = j
        /\ \A i \in DOMAIN data :
              LET w == LastWritten(store, data[i].key)
              IN  /\ data[i].html_url = w.html_url
                  /\ data[i].description = w.description
                  /\ data[i].stars = w.stars
                  /\ data[i].listed = w.listed
        /\ first_loaded = <<data>>

\* a second load, after a rendering that marked a/b listed
RoundTripWitness ==
    /\ trail = <<"load_data_from_jsonl", "generate_readme", "load_data_from_jsonl">>
    /\ FetcherWritten(store)
    /\ Len(store.lines) = 2
    /\ star_lists = <<CatGo>>
    /\ HasKey(data, "a/b")
    /\ output.tables[1].rows # <<>>

\* C4: two generate_readme calls in a row, with nothing loaded or scraped
\* in between, write the same document.
RenderTwiceSame == Len(renders) = 2 => renders[1] = renders[2]

\* rendered twice, the first call having marked a record listed and left
\* another unlisted
RenderTwiceWitness ==
    /\ Len(renders) = 2
    /\ \E i, j \in DOMAIN data : data[i].listed /\ ~data[j].listed
    /\ output.tables[1].rows # <<>>

NonIncreasing(rows) ==
    \A r \in 1..(Len(rows) - 1) : rows[r].stars >= rows[r + 1].stars

\* the keys of a membership list that are keys of the mapping, in order
Scraped(id) ==
    Filter([m \in DOMAIN Members(star_list_repos, id) |->
               KeyOf(Members(star_list_repos, id)[m])],
           Range(KeysOf(data)))

\* the keys of the mapping that are a row of no category table, in order
LeftOver(doc) ==
    Filter(KeysOf(data),
           {k \in Range(KeysOf(data)) :
               \A p \in RowsOf(doc, k) : p[1] = Len(doc.tables)})

\* C5: in every table of the document the stars of consecutive rows do not
\* increase when the sort mode is "stars"; in any other mode the rows of a
\* category table are its membership list (the keys the mapping has) in
\* reverse, and those of the uncategorized table the remaining keys of
\* the mapping in reverse.
TablesSorted ==
    output # NoOutput =>
        IF sort_by = "stars"
        THEN \A t \in DOMAIN output.tables : NonIncreasing(output.tables[t].rows)
        ELSE /\ \A t \in DOMAIN star_lists :
                   RowKeys(output.tables[t]) = Reverse(Scraped(star_lists[t][1]))
             /\ LET last == output.tables[Len(output.tables)]
                IN  IF LeftOver(output) = <<>> THEN last.rows = <<PlaceholderRow>>
                    ELSE RowKeys(last) = Reverse(LeftOver(output))

\* a category table of two rows that the sort had to exchange
TablesSortedWitness ==
    /\ output # NoOutput
    /\ sort_by = "stars"
    /\ star_lists # <<>>
    /\ Scraped(star_lists[1][1]) = <<"a/b", "c/d">>
    /\ RowKeys(output.tables[1]) = <<"c/d", "a/b">>

\* the slug with -n appended, n written in decimal
Numbered(slug, n) == IF n = 0 THEN slug ELSE slug \o <<"-">> \o IntToText(n)

\* C6: the anchors of the entries build_toc emits are pairwise distinct,
\* the n-th later entry of a slug carrying the slug with -n appended.
AnchorsDistinct ==
    toc # <<>> =>
        LET entries == toc[1]
        IN  /\ \A i, j \in DOMAIN entries : i # j => entries[i][2] # entries[j][2]
            /\ \A i \in DOMAIN entries :
                  entries[i][2] =
                     Numbered(slugify(entries[i][1]),
                              Cardinality({j \in 1..(i - 1) :
                                  slugify(entries[j][1]) = slugify(entries[i][1])}))

WellFormed(line) == line.kind = "object" /\ "full_name" \in DOMAIN line.obj

\* C7: load_data_from_jsonl raises nothing whatever the store holds: a
\* line that is no record with a full_name is passed over, the records of
\* the other lines are loaded, and a missing store gives the empty mapping.
LoadNeverFails ==
    Loaded =>
        /\ err = "none"
        /\ Range(KeysOf(data)) =
              {store.lines[i].obj.full_name :
                  i \in {j \in DOMAIN store.lines : WellFormed(store.lines[j])}}

\* C8: a page response with an error status ends the main run there: the
\* error is propagated, nothing of that page is written, no further page
\* is requested, none of the later calls is made and no README is written;
\* the store holds the records of the pages before it.
FailedFetchStops ==
    /\ hdr.status >= 400 => pc = "failed"
    /\ pc = "failed" =>
          /\ err = "HTTPError"
          /\ hdr.status >= 400
          /\ trail = <<"get_all_starred">>
          /\ requests = Len(pages) + 1
          /\ store = File(PageLines(Flatten(pages)))
          /\ data = <<>>
          /\ star_lists = <<>>
          /\ DOMAIN star_list_repos = {}
          /\ output = NoOutput

\* the second page failed after the first was written
FailedFetchWitness ==
    /\ pc = "failed"
    /\ Len(pages) = 1
    /\ store.lines # <<>>

\* C9: no page request is issued before the reset time plus 5 seconds of
\* any earlier response that reported no remaining quota, and a response
\* that reports quota left, lacks a header or carries a header that is no
\* integer causes no sleep.
PacedRequests ==
    /\ req_at >= req_due
    /\ clock >= due
    /\ AskedFor(hdr) = 0 => slept = 0

\* a page requested after a response that reported no quota and a reset
\* time ahead of the clock
PacedRequestsWitness ==
    /\ requests >= 2
    /\ req_due > Resolution * 5
    /\ req_at >= req_due

ScrapeReturned == pc \in {"load_data_from_jsonl", "generate_readme", "done"}

\* the number of the first page of a list without a match
FirstEmpty(site, id) ==
    CHOOSE k \in 1..(Len(site[id]) + 1) :
        /\ PageMatches(site, id, k) = <<>>
        /\ \A n \in 1..(k - 1) : PageMatches(site, id, n) # <<>>

\* C10: after get_all_repos the membership of every discovered category is
\* the matches of its pages before the first empty one, in page order,
\* each as often as the pages have it.
MembershipIsEnumeration ==
    ScrapeReturned =>
        \A id \in IdsOf(star_lists) :
            /\ id \in DOMAIN star_list_repos
            /\ star_list_repos[id] =
                  Flatten(SubSeq(web[id], 1, FirstEmpty(web, id) - 1))

====
